---- MODULE Spec2Model ----
(***************************************************************************)
(* Model of the service-desk analytics scripts.                            *)
(*                                                                         *)
(*   metrics.py  : load -> preprocess -> baselines -> departmental         *)
(*                 workload -> daily volume / peaks -> borough statistics   *)
(*                 -> business impact -> report -> Power BI export          *)
(*   data_exp.py : missing-value table -> strict date conversion           *)
(*                                                                         *)
(* The CSV is a table of requests.  A row of the model stands for n        *)
(* requests that agree on every modelled column and differ only in         *)
(* unique_key (never missing: it is the primary key of the source data).    *)
(* Float columns are exact rationals [nan, num, den]; NaN is a value.       *)
(* complaint_type, and with it service_diversity and the STEP 6 table,      *)
(* is not modelled.                                                         *)
(***************************************************************************)
EXTENDS Integers, Sequences, FiniteSets, TLC

VARIABLES
    csv,                        \* the file Gov-NYC-311_ServiceDesk.csv
    pc,                         \* position of metrics.py
    df,                         \* metrics.py: the DataFrame
    date_range, unique_months,
    BASELINE_MONTHLY_CAPACITY, WORKLOAD_THRESHOLD,
    monthly_agency_volume, monthly_agency_avg, top_departments,
    daily_volume, peak_days, avg_daily,
    borough_stats,
    impact,                     \* the scalars of STEP 7
    powerbi_data,
    exp_pc, exp_df, missing_data    \* data_exp.py

vars == <<csv, pc, df, date_range, unique_months,
          BASELINE_MONTHLY_CAPACITY, WORKLOAD_THRESHOLD,
          monthly_agency_volume, monthly_agency_avg, top_departments,
          daily_volume, peak_days, avg_daily, borough_stats, impact,
          powerbi_data, exp_pc, exp_df, missing_data>>

metricsVars == <<pc, df, date_range, unique_months,
          BASELINE_MONTHLY_CAPACITY, WORKLOAD_THRESHOLD,
          monthly_agency_volume, monthly_agency_avg, top_departments,
          daily_volume, peak_days, avg_daily, borough_stats, impact,
          powerbi_data>>

expVars == <<exp_pc, exp_df, missing_data>>

----------------------------------------------------------------------------
(* Bounds of the input tables.                                              *)

MaxRows == 2        \* rows of a general table
MaxMonths == 6      \* months of a monthly-volume table
MaxDays == 10       \* days of a daily-series table
MaxCell == 2        \* requests per (borough, status) cell of a regional table
LongSeriesDays == 502   \* days of the long daily series of the export tables
MaxAgencies == 21       \* agencies of a many-agency table

----------------------------------------------------------------------------
(* Values.                                                                  *)

Null == "<NA>"                  \* a missing cell (NaN of an object/category column)

\* a date as text, "yyyy-mm-dd": m counts the months from January 2024 (13 is
\* January 2025), d is the day of the month
IsoText(m, d) == [kind |-> "iso", m |-> m, d |-> d]
BadText == [kind |-> "bad", m |-> 0, d |-> 0]           \* text that is no date
NullText == [kind |-> "null", m |-> 0, d |-> 0]         \* empty cell

Timestamp(m, d) == [kind |-> "ts", m |-> m, d |-> d]
NaT == [kind |-> "NaT", m |-> 0, d |-> 0]

NaN == [nan |-> TRUE, num |-> 0, den |-> 1]
Float(p, q) == [nan |-> FALSE, num |-> p, den |-> q]

RECURSIVE SumOver(_, _)
SumOver(S, f) ==
    IF S = {} THEN 0
    ELSE LET x == CHOOSE y \in S : TRUE IN f[x] + SumOver(S \ {x}, f)

Indices(s) == 1..Len(s)

\* s[lo] + ... + s[hi], by halves
RECURSIVE SumRange(_, _, _)
SumRange(s, lo, hi) ==
    IF lo > hi THEN 0
    ELSE IF lo = hi THEN s[lo]
    ELSE SumRange(s, lo, (lo + hi) \div 2) + SumRange(s, (lo + hi) \div 2 + 1, hi)

\* number of requests in the rows I of table t
CountRows(t, I) == SumRange([i \in Indices(t) |-> IF i \in I THEN t[i].n ELSE 0], 1, Len(t))

Max(S) == CHOOSE x \in S : \A y \in S : y <= x
Min(S) == CHOOSE x \in S : \A y \in S : x <= y

\* numpy's round: to the nearest integer, ties to the even one (p >= 0, q > 0)
RoundHalfEven(p, q) ==
    LET f == p \div q
        r2 == 2 * (p % q)
    IN  IF r2 < q THEN f
        ELSE IF r2 > q THEN f + 1
        ELSE IF f % 2 = 0 THEN f ELSE f + 1

----------------------------------------------------------------------------
(* pandas date handling.                                                    *)

\* pd.to_datetime(errors='coerce'), one cell
to_datetime_coerce(x) == IF x.kind = "iso" THEN Timestamp(x.m, x.d) ELSE NaT

\* .dt.to_period('M'): the month, counted from January 2024; 0 for NaT
to_period_M(t) == IF t.kind = "ts" THEN t.m ELSE 0

\* .dt.date as an ordinal that sorts like the date, 0 for NaT
dt_date(t) == IF t.kind = "ts" THEN t.m * 100 + t.d ELSE 0

\* days from 2023-12-31 to the last day before month m (2024 is a leap year)
DaysBeforeMonth == <<0, 31, 60, 91, 121, 152, 182, 213, 244, 274, 305, 335,
                     366, 397, 425, 456, 486, 517, 547, 578, 609, 639, 670, 700>>
DayOfYear(t) == DaysBeforeMonth[t.m] + t.d

\* (df['created_date'].max() - df['created_date'].min()).days
DateRangeDays(t) ==
    LET ts == {i \in Indices(t) : t[i].created_date.kind = "ts"}
    IN  IF ts = {} THEN NaN
        ELSE Float(Max({DayOfYear(t[i].created_date) : i \in ts})
                   - Min({DayOfYear(t[i].created_date) : i \in ts}), 1)

\* len(df['created_date'].dt.to_period('M').unique()): unique() keeps NaT
UniqueMonths(t) == Cardinality({to_period_M(t[i].created_date) : i \in Indices(t)})

----------------------------------------------------------------------------
(* Input tables: what read_csv can return.                                  *)

Row(a, c, cl, b, st, k) ==
    [agency_name |-> a, created_date |-> c, closed_date |-> cl,
     borough |-> b, status |-> st, n |-> k]

NonEmptyRows(t) == SelectSeq(t, LAMBDA r : r.n > 0)

SeqsUpTo(S, k) == UNION {[1..j -> S] : j \in 0..k}

\* general tables: every kind of missing or malformed cell, one request per row
GeneralRows ==
    {Row(a, c, NullText, b, "Open", 1) :
        a \in {"DOT", "NYPD", Null},
        c \in {IsoText(1, 1), IsoText(2, 1), BadText, NullText},
        b \in {"BRONX", Null}}
    \cup {Row("DOT", IsoText(1, 1), cl, "BRONX", "Closed", 1) :
            cl \in {IsoText(1, 2), BadText}}

GeneralTables == SeqsUpTo(GeneralRows, MaxRows)

\* monthly-volume tables: DOT has base + 1 or base + 2 requests in each of the
\* first j months, the bases sitting just under the thresholds of the three
\* tiers; NYPD has one request or none; and the table of counts 100, 200, 300
MonthlyBases == {0, 14999, 15999, 23999, 24999, 39999}

MonthlyTablesOf(j) ==
    {NonEmptyRows([i \in 1..j |-> Row("DOT", IsoText(i, 1), NullText, "BRONX", "Open", base + dl[i])]
                  \o <<Row("NYPD", IsoText(1, 2), NullText, "BRONX", "Open", other)>>) :
        base \in MonthlyBases, other \in {0, 1}, dl \in [1..j -> {1, 2}]}

MonthlyTables ==
    UNION {MonthlyTablesOf(j) : j \in 0..MaxMonths}
    \cup {[i \in 1..3 |-> Row("DOT", IsoText(i, 1), NullText, "BRONX", "Open", 100 * i)]}

\* daily-series tables: 1 or 50 requests on each of j days of January, the days
\* consecutive (step 1) or every other day (step 2)
DailyTablesOf(j) ==
    {[i \in 1..j |-> Row("DOT", IsoText(1, 1 + step * (i - 1)), NullText, "BRONX", "Open", c[i])] :
        c \in [1..j -> {1, 50}], step \in {1, 2}}

DailyTables == UNION {DailyTablesOf(j) : j \in 0..MaxDays}

\* regional tables: up to MaxCell requests per (borough, status) cell, at most
\* one request without a borough; and Manhattan 600 of 800, Bronx 100 of 200
RegionalTable(mc, mo, bc, bo, nb) ==
    NonEmptyRows(<<Row("DOT", IsoText(1, 1), NullText, "MANHATTAN", "Closed", mc),
                   Row("DOT", IsoText(1, 1), NullText, "MANHATTAN", "Open", mo),
                   Row("DOT", IsoText(1, 2), NullText, "BRONX", "Closed", bc),
                   Row("DOT", IsoText(1, 2), NullText, "BRONX", "Open", bo),
                   Row("DOT", IsoText(1, 2), NullText, Null, "Open", nb)>>)

RegionalTables ==
    {RegionalTable(mc, mo, bc, bo, nb) :
        mc \in 0..MaxCell, mo \in 0..MaxCell, bc \in 0..MaxCell,
        bo \in 0..MaxCell, nb \in {0, 1}}
    \cup {RegionalTable(600, 200, 100, 100, 0)}

\* the k-th day counted from 2024-01-01, as text
IsoDay(k) ==
    LET m == Max({x \in DOMAIN DaysBeforeMonth : DaysBeforeMonth[x] < k})
    IN  IsoText(m, k - DaysBeforeMonth[m])

\* LongSeriesDays consecutive days from 2024-01-01 with one request a day, but
\* for the last 20 days, which have 2, 3, ... 21 requests
LongSeries ==
    [k \in 1..LongSeriesDays |->
        Row("DOT", IsoDay(k), NullText, "BRONX", "Open",
            IF k > LongSeriesDays - 20 THEN 1 + k - (LongSeriesDays - 20) ELSE 1)]

\* export tables: the general tables and the long series
ExportTables == GeneralTables \cup {LongSeries}

AgencyNames ==
    <<"DOT", "NYPD", "DSNY", "DEP", "HPD", "DOB", "DPR", "DOHMH", "FDNY", "DCA",
      "DHS", "DOE", "DOF", "DOITT", "EDC", "HRA", "NYCEM", "DFTA", "OSE", "DCWP",
      "DCP", "DOI", "ACS", "DOC", "CCRB", "NYCHA">>

\* many-agency tables: the first k agencies, each with c requests on
\* 2024-01-01 but the first, which has c + extra
ManyAgencies(k, c, extra) ==
    [i \in 1..k |-> Row(AgencyNames[i], IsoText(1, 1), NullText, "BRONX", "Open",
                        IF i = 1 THEN c + extra ELSE c)]

ImpactTables ==
    {ManyAgencies(k, c, extra) : k \in 0..MaxAgencies, c \in {15000, 15001}, extra \in {0, 1}}

\* tier tables: one request of DOT on the first day of each of the first j
\* months, followed by up to 2 requests whose created_date is empty or no date
TierTablesOf(j) ==
    {[i \in 1..j |-> Row("DOT", IsoText(i, 1), NullText, "BRONX", "Open", 1)]
        \o [i \in DOMAIN u |-> Row("DOT", u[i], NullText, "BRONX", "Open", 1)] :
        u \in SeqsUpTo({BadText, NullText}, 2)}

TierTables == UNION {TierTablesOf(j) : j \in 0..MaxMonths}

----------------------------------------------------------------------------
(* metrics.py                                                               *)

NoImpact == [total_requests |-> 0, overburdened_depts |-> 0, total_depts |-> 0,
             underutilized_depts |-> 0, optimal_depts |-> 0]
NoMissing == [created_date |-> 0, closed_date |-> 0, agency_name |-> 0, borough |-> 0]

\* line 13 of metrics.py and line 10 of data_exp.py: both scripts read the file
InitWith(Tables) ==
    /\ csv \in Tables
    /\ df = csv
    /\ pc = "preprocess"
    /\ date_range = NaN
    /\ unique_months = 0
    /\ BASELINE_MONTHLY_CAPACITY = 0
    /\ WORKLOAD_THRESHOLD = 0
    /\ monthly_agency_volume = <<>>
    /\ monthly_agency_avg = <<>>
    /\ top_departments = {}
    /\ daily_volume = <<>>
    /\ peak_days = {}
    /\ avg_daily = NaN
    /\ borough_stats = <<>>
    /\ impact = NoImpact
    /\ powerbi_data = <<>>
    /\ exp_pc = "missing"
    /\ exp_df = csv
    /\ missing_data = NoMissing

Init == InitWith(GeneralTables)
InitVolumes == InitWith(MonthlyTables)
InitDaily == InitWith(DailyTables)
InitRegional == InitWith(RegionalTables)
InitExport == InitWith(ExportTables)
InitImpact == InitWith(ImpactTables)
InitTiers == InitWith(TierTables)

\* STEP 1, lines 24-54: no statement of the block raises under errors='coerce'
ParseDates(t) ==
    [i \in Indices(t) |->
        [t[i] EXCEPT !.created_date = to_datetime_coerce(@),
                     !.closed_date = to_datetime_coerce(@)]]

Preprocess ==
    /\ pc = "preprocess"
    /\ df' = ParseDates(df)
    /\ date_range' = DateRangeDays(df')
    /\ unique_months' = UniqueMonths(df')
    /\ pc' = "baseline"
    /\ UNCHANGED <<csv, BASELINE_MONTHLY_CAPACITY, WORKLOAD_THRESHOLD,
                   monthly_agency_volume, monthly_agency_avg, top_departments,
                   daily_volume, peak_days, avg_daily, borough_stats, impact,
                   powerbi_data>>
    /\ UNCHANGED expVars

\* STEP 2, lines 61-71
BaselineCapacity(months) ==
    IF months >= 6 THEN 50000 ELSE IF months >= 3 THEN 30000 ELSE 20000

BaselineThreshold(months) ==
    IF months >= 6 THEN 40000 ELSE IF months >= 3 THEN 25000 ELSE 15000

\* UTILIZATION_THRESHOLD = 0.80 as a fraction
UTILIZATION_THRESHOLD == Float(80, 100)

Baseline ==
    /\ pc = "baseline"
    /\ BASELINE_MONTHLY_CAPACITY' = BaselineCapacity(unique_months)
    /\ WORKLOAD_THRESHOLD' = BaselineThreshold(unique_months)
    /\ pc' = "monthly"
    /\ UNCHANGED <<csv, df, date_range, unique_months,
                   monthly_agency_volume, monthly_agency_avg, top_departments,
                   daily_volume, peak_days, avg_daily, borough_stats, impact,
                   powerbi_data>>
    /\ UNCHANGED expVars

\* comparisons of floats: every comparison with NaN is false
Gt(x, y) == ~x.nan /\ ~y.nan /\ x.num * y.den > y.num * x.den
Lt(x, y) == Gt(y, x)
Ge(x, y) == ~x.nan /\ ~y.nan /\ x.num * y.den >= y.num * x.den
Le(x, y) == Ge(y, x)

\* STEP 3, line 83: df['year_month']
WithYearMonth(t) ==
    [i \in Indices(t) |-> t[i] @@ [year_month |-> to_period_M(t[i].created_date)]]

\* the grouping that keeps the rows without a month, as with dropna=False
MonthlyAgencyVolumeKeepNaT(t) ==
    LET keys == {<<t[i].agency_name, t[i].year_month>> :
                    i \in {j \in Indices(t) : t[j].agency_name # Null}}
    IN  [k \in keys |->
            CountRows(t, {x \in Indices(t) : t[x].agency_name = k[1] /\ t[x].year_month = k[2]})]

\* line 86: groupby(['agency_name', 'year_month'], observed=True).size();
\* groupby drops the rows whose key is missing (NaN agency_name, NaT year_month)
MonthlyAgencyVolume(t) ==
    LET keys == {<<t[i].agency_name, t[i].year_month>> :
                    i \in {j \in Indices(t) : t[j].agency_name # Null /\ t[j].year_month # 0}}
    IN  [k \in keys |->
            CountRows(t, {x \in Indices(t) : t[x].agency_name = k[1] /\ t[x].year_month = k[2]})]

\* the monthly_requests of one agency, by month
AgencyMonths(vol, a) ==
    [m \in {k[2] : k \in {q \in DOMAIN vol : q[1] = a}} |-> vol[<<a, m>>]]

\* round(sqrt(p / q)) for p >= 0, q > 0: the least s with sqrt(p / q) <= s + 1/2,
\* and the even neighbour on a tie
RECURSIVE RoundSqrtFrom(_, _, _)
RoundSqrtFrom(p, q, s) ==
    IF (2 * s + 1) * (2 * s + 1) * q > 4 * p THEN s
    ELSE IF (2 * s + 1) * (2 * s + 1) * q = 4 * p
         THEN (IF s % 2 = 0 THEN s ELSE s + 1)
    ELSE RoundSqrtFrom(p, q, s + 1)

\* the mean cut to an integer instead of rounded
AggMeanTruncated(total, k) == Float(total \div k, 1)

\* line 87: 'mean' followed by .round(0)
AggMean(total, k) == Float(RoundHalfEven(total, k), 1)

\* line 87: 'std' (sample standard deviation, ddof = 1) followed by .round(0);
\* NaN for a single month.  The sums are taken over the distances to the
\* smallest count, which leaves the variance as it is.
AggStd(c) ==
    LET k == Cardinality(DOMAIN c)
        lo == Min({c[m] : m \in DOMAIN c})
        y == [m \in DOMAIN c |-> c[m] - lo]
        sy == SumOver(DOMAIN c, y)
        syy == SumOver(DOMAIN c, [m \in DOMAIN c |-> y[m] * y[m]])
    IN  IF k = 1 THEN NaN
        ELSE Float(RoundSqrtFrom(k * syy - sy * sy, k * (k - 1), 0), 1)

\* lines 90-93
UtilizationRate(mean, capacity) == Float(mean.num, mean.den * capacity)
WorkloadFlag(mean, threshold) == Gt(mean, Float(threshold, 1))
UtilizationFlag(rate) == Gt(rate, UTILIZATION_THRESHOLD)
VariabilityCoefficient(std, mean) ==
    IF std.nan THEN NaN ELSE Float(RoundHalfEven(100 * std.num, mean.num), 100)

\* lines 87-93: one row of monthly_agency_avg
AgencyRow(c, capacity, threshold) ==
    LET mean == AggMean(SumOver(DOMAIN c, c), Cardinality(DOMAIN c))
        std == AggStd(c)
        rate == UtilizationRate(mean, capacity)
    IN  [mean |-> mean,
         max |-> Max({c[m] : m \in DOMAIN c}),
         min |-> Min({c[m] : m \in DOMAIN c}),
         std |-> std,
         utilization_rate |-> rate,
         workload_flag |-> WorkloadFlag(mean, threshold),
         utilization_flag |-> UtilizationFlag(rate),
         variability_coefficient |-> VariabilityCoefficient(std, mean)]

MonthlyAgencyAvg(vol, capacity, threshold) ==
    [a \in {k[1] : k \in DOMAIN vol} |->
        AgencyRow(AgencyMonths(vol, a), capacity, threshold)]

\* line 101: sort_values('mean', ascending=False).head(20) keeps 20 agencies
\* none of which has a smaller mean than an agency left out; the order among
\* equal means is the sort's
HeadRows == 20

RECURSIVE KSubsets(_, _)
KSubsets(S, k) ==
    IF k = 0 THEN {{}}
    ELSE IF S = {} THEN {}
    ELSE LET x == CHOOSE y \in S : TRUE
         IN  KSubsets(S \ {x}, k) \cup {T \cup {x} : T \in KSubsets(S \ {x}, k - 1)}

TopDepartments(avg) ==
    LET all == DOMAIN avg
        out == IF Cardinality(all) > HeadRows THEN Cardinality(all) - HeadRows ELSE 0
    IN  {all \ E : E \in {X \in KSubsets(all, out) :
                            \A a \in all \ X : \A b \in X : Ge(avg[a].mean, avg[b].mean)}}

MonthlyVolumes ==
    /\ pc = "monthly"
    /\ df' = WithYearMonth(df)
    /\ monthly_agency_volume' = MonthlyAgencyVolume(df')
    /\ monthly_agency_avg' = MonthlyAgencyAvg(monthly_agency_volume',
                                BASELINE_MONTHLY_CAPACITY, WORKLOAD_THRESHOLD)
    /\ top_departments' \in TopDepartments(monthly_agency_avg')
    /\ pc' = "daily"
    /\ UNCHANGED <<csv, date_range, unique_months,
                   BASELINE_MONTHLY_CAPACITY, WORKLOAD_THRESHOLD,
                   daily_volume, peak_days, avg_daily, borough_stats, impact,
                   powerbi_data>>
    /\ UNCHANGED expVars

\* STEP 4, line 117: df['date']
WithDate(t) == [i \in Indices(t) |-> t[i] @@ [date |-> dt_date(t[i].created_date)]]

\* the integers of S in ascending order: the lower half of the values, sorted,
\* before the upper half
RECURSIVE SortSet(_)
SortSet(S) ==
    IF S = {} THEN <<>>
    ELSE LET lo == Min(S)
             mid == (lo + Max(S)) \div 2
         IN  IF lo = Max(S) THEN <<lo>>
             ELSE SortSet({x \in S : x <= mid}) \o SortSet({x \in S : x > mid})

\* the counts of s in ascending order, equal counts kept
RECURSIVE SortCounts(_)
SortCounts(s) ==
    IF s = <<>> THEN <<>>
    ELSE LET vals == {s[i] : i \in Indices(s)}
             mid == (Min(vals) + Max(vals)) \div 2
         IN  IF Cardinality(vals) = 1 THEN s
             ELSE SortCounts(SelectSeq(s, LAMBDA v : v <= mid))
                  \o SortCounts(SelectSeq(s, LAMBDA v : v > mid))

\* line 118: groupby('date').size(), ascending by date; rows with a NaT date
\* are dropped by groupby
DailyRequests(t) ==
    LET dates == SortSet({t[i].date : i \in Indices(t)} \ {0})
    IN  [i \in Indices(dates) |->
            [date |-> dates[i],
             daily_requests |-> CountRows(t, {x \in Indices(t) : t[x].date = dates[i]})]]

\* the window trailing behind its entry, as without center=True
RollingTrailing(s, w) ==
    [i \in Indices(s) |->
        IF i - w + 1 < 1 THEN NaN ELSE Float(SumOver((i - w + 1)..i, s), w)]

\* lines 122-123: rolling(window=w, center=True).mean(); min_periods is w, the
\* window of entry i ends (w - 1) // 2 entries after it
Rolling(s, w) ==
    [i \in Indices(s) |->
        LET last == i + (w - 1) \div 2
            first == last - w + 1
        IN  IF first < 1 \/ last > Len(s) THEN NaN
            ELSE Float(SumOver(first..last, s), w)]

\* line 124: Series.quantile(q / 100), linear interpolation between the two
\* order statistics around position (n - 1) * q / 100
Quantile(s, q) ==
    LET o == SortCounts(s)
        pos == q * (Len(s) - 1)
        lo == pos \div 100 + 1
        fr == pos % 100
    IN  IF Len(s) = 0 THEN NaN
        ELSE IF fr = 0 THEN Float(100 * o[lo], 100)
        ELSE Float(100 * o[lo] + fr * (o[lo + 1] - o[lo]), 100)

PEAK_QUANTILE == 98

\* >= in place of >
PeakFlagAtLeast(count, threshold) == Ge(Float(count, 1), threshold)

PeakFlag(count, threshold) == Gt(Float(count, 1), threshold)

\* lines 118-124
DailyVolume(t) ==
    LET dr == DailyRequests(t)
        counts == [i \in Indices(dr) |-> dr[i].daily_requests]
        r7 == Rolling(counts, 7)
        r30 == Rolling(counts, 30)
        q == Quantile(counts, PEAK_QUANTILE)
    IN  [i \in Indices(dr) |->
            [date |-> dr[i].date,
             daily_requests |-> counts[i],
             rolling_avg_7 |-> r7[i],
             rolling_avg_30 |-> r30[i],
             peak_flag |-> PeakFlag(counts[i], q)]]

\* line 127: daily_volume[peak_flag].nlargest(10, 'daily_requests'), the
\* earlier row first among equal counts; as the set of its dates
NLargest == 10

PeakDays(dv) ==
    LET flagged == {i \in Indices(dv) : dv[i].peak_flag}
        ahead(i) == {j \in flagged :
                        \/ dv[j].daily_requests > dv[i].daily_requests
                        \/ dv[j].daily_requests = dv[i].daily_requests /\ j < i}
    IN  {dv[i].date : i \in {j \in flagged : Cardinality(ahead(j)) < NLargest}}

\* line 130: daily_volume['daily_requests'].mean()
AvgDaily(dv) ==
    IF Len(dv) = 0 THEN NaN
    ELSE Float(SumRange([i \in Indices(dv) |-> dv[i].daily_requests], 1, Len(dv)), Len(dv))

DailySeries ==
    /\ pc = "daily"
    /\ df' = WithDate(df)
    /\ daily_volume' = DailyVolume(df')
    /\ peak_days' = PeakDays(daily_volume')
    /\ avg_daily' = AvgDaily(daily_volume')
    /\ pc' = "regional"
    /\ UNCHANGED <<csv, date_range, unique_months,
                   BASELINE_MONTHLY_CAPACITY, WORKLOAD_THRESHOLD,
                   monthly_agency_volume, monthly_agency_avg, top_departments,
                   borough_stats, impact, powerbi_data>>
    /\ UNCHANGED expVars

\* STEP 5, lines 152-161: groupby('borough', observed=True) drops the rows
\* without a borough; .round(3) rounds closure_rate; a division by zero days
\* is inf (den = 0).  The final sort only orders the rows of the mapping.
\* the rate cut to 3 decimals instead of rounded
ClosureRateTruncated(closed, total) == Float((1000 * closed) \div total, 1000)

ClosureRate(closed, total) == Float(RoundHalfEven(1000 * closed, total), 1000)
MarketShare(total, all) == Float(100 * total, all)

BoroughStats(t, days) ==
    LET all == CountRows(t, {x \in Indices(t) : t[x].borough # Null})
    IN  [b \in {t[i].borough : i \in Indices(t)} \ {Null} |->
            LET total == CountRows(t, {x \in Indices(t) : t[x].borough = b})
                closed == CountRows(t, {x \in Indices(t) : t[x].borough = b /\ t[x].status = "Closed"})
            IN  [total_requests |-> total,
                 closure_rate |-> ClosureRate(closed, total),
                 market_share |-> MarketShare(total, all),
                 requests_per_day |-> Float(total, days)]]

RegionalSummary ==
    /\ pc = "regional"
    /\ borough_stats' = BoroughStats(df, Len(daily_volume))
    /\ pc' = "impact"
    /\ UNCHANGED <<csv, df, date_range, unique_months,
                   BASELINE_MONTHLY_CAPACITY, WORKLOAD_THRESHOLD,
                   monthly_agency_volume, monthly_agency_avg, top_departments,
                   daily_volume, peak_days, avg_daily, impact, powerbi_data>>
    /\ UNCHANGED expVars

\* STEP 7, lines 206-213
BusinessImpact(t, avg, top) ==
    [total_requests |-> CountRows(t, Indices(t)),
     overburdened_depts |-> Cardinality({a \in top : avg[a].workload_flag}),
     total_depts |-> Cardinality(DOMAIN avg),
     underutilized_depts |->
        Cardinality({a \in DOMAIN avg : Lt(avg[a].utilization_rate, Float(25, 100))}),
     optimal_depts |->
        Cardinality({a \in DOMAIN avg :
                        /\ Ge(avg[a].utilization_rate, Float(25, 100))
                        /\ Le(avg[a].utilization_rate, Float(80, 100))})]

Impact ==
    /\ pc = "impact"
    /\ impact' = BusinessImpact(df, monthly_agency_avg, top_departments)
    /\ pc' = "report"
    /\ UNCHANGED <<csv, df, date_range, unique_months,
                   BASELINE_MONTHLY_CAPACITY, WORKLOAD_THRESHOLD,
                   monthly_agency_volume, monthly_agency_avg, top_departments,
                   daily_volume, peak_days, avg_daily, borough_stats, powerbi_data>>
    /\ UNCHANGED expVars

\* lines 223-239, outside any try block.  Line 225 calls strftime on
\* df['created_date'].min(), which raises ValueError on NaT; lines 227-229
\* divide by total_depts, which raises ZeroDivisionError on 0.
ReportRaises(t, imp) ==
    \/ \A i \in Indices(t) : t[i].created_date.kind # "ts"
    \/ imp.total_depts = 0

Report ==
    /\ pc = "report"
    /\ ~ReportRaises(df, impact)
    /\ pc' = "export"
    /\ UNCHANGED <<csv, df, date_range, unique_months,
                   BASELINE_MONTHLY_CAPACITY, WORKLOAD_THRESHOLD,
                   monthly_agency_volume, monthly_agency_avg, top_departments,
                   daily_volume, peak_days, avg_daily, borough_stats, impact,
                   powerbi_data>>
    /\ UNCHANGED expVars

ReportRaise ==
    /\ pc = "report"
    /\ ReportRaises(df, impact)
    /\ pc' = "raised"
    /\ UNCHANGED <<csv, df, date_range, unique_months,
                   BASELINE_MONTHLY_CAPACITY, WORKLOAD_THRESHOLD,
                   monthly_agency_volume, monthly_agency_avg, top_departments,
                   daily_volume, peak_days, avg_daily, borough_stats, impact,
                   powerbi_data>>
    /\ UNCHANGED expVars

\* STEP 8, lines 249-269: df.copy(), the calendar fields (month and quarter
\* stand for them), the left merge with dept_flags on agency_name, which
\* keeps every row and fills NaN where the agency has no row, and is_peak_day
FlagText(b) == IF b THEN "True" ELSE "False"

PowerBIRow(r, avg, peaks) ==
    LET known == r.agency_name \in DOMAIN avg
    IN  r @@ [month |-> IF r.created_date.kind = "ts"
                        THEN Float(((r.created_date.m - 1) % 12) + 1, 1) ELSE NaN,
              quarter |-> IF r.created_date.kind = "ts"
                          THEN Float(((r.created_date.m - 1) % 12) \div 3 + 1, 1) ELSE NaN,
              workload_flag |-> IF known THEN FlagText(avg[r.agency_name].workload_flag)
                                ELSE "NaN",
              utilization_rate |-> IF known THEN avg[r.agency_name].utilization_rate ELSE NaN,
              variability_coefficient |->
                    IF known THEN avg[r.agency_name].variability_coefficient ELSE NaN,
              is_peak_day |-> r.date \in peaks]

PowerBIData(t, avg, peaks) == [i \in Indices(t) |-> PowerBIRow(t[i], avg, peaks)]

Export ==
    /\ pc = "export"
    /\ powerbi_data' = PowerBIData(df, monthly_agency_avg, peak_days)
    /\ pc' = "done"
    /\ UNCHANGED <<csv, df, date_range, unique_months,
                   BASELINE_MONTHLY_CAPACITY, WORKLOAD_THRESHOLD,
                   monthly_agency_volume, monthly_agency_avg, top_departments,
                   daily_volume, peak_days, avg_daily, borough_stats, impact>>
    /\ UNCHANGED expVars

----------------------------------------------------------------------------
(* data_exp.py                                                              *)

\* line 32: df.isnull().sum(), before any conversion
MissingData(t) ==
    [created_date |-> CountRows(t, {x \in Indices(t) : t[x].created_date.kind = "null"}),
     closed_date |-> CountRows(t, {x \in Indices(t) : t[x].closed_date.kind = "null"}),
     agency_name |-> CountRows(t, {x \in Indices(t) : t[x].agency_name = Null}),
     borough |-> CountRows(t, {x \in Indices(t) : t[x].borough = Null})]

ExpMissing ==
    /\ exp_pc = "missing"
    /\ missing_data' = MissingData(exp_df)
    /\ exp_pc' = "created"
    /\ UNCHANGED <<csv, exp_df>>
    /\ UNCHANGED metricsVars

\* lines 43-44: pd.to_datetime without errors='coerce' raises on text that is
\* no date; nothing catches it
StrictRaises(t, col) == \E i \in Indices(t) : t[i][col].kind = "bad"

ExpCreated ==
    /\ exp_pc = "created"
    /\ ~StrictRaises(exp_df, "created_date")
    /\ exp_df' = [i \in Indices(exp_df) |->
                    [exp_df[i] EXCEPT !.created_date = to_datetime_coerce(@)]]
    /\ exp_pc' = "closed"
    /\ UNCHANGED <<csv, missing_data>>
    /\ UNCHANGED metricsVars

ExpCreatedRaise ==
    /\ exp_pc = "created"
    /\ StrictRaises(exp_df, "created_date")
    /\ exp_pc' = "raised"
    /\ UNCHANGED <<csv, exp_df, missing_data>>
    /\ UNCHANGED metricsVars

ExpClosed ==
    /\ exp_pc = "closed"
    /\ ~StrictRaises(exp_df, "closed_date")
    /\ exp_df' = [i \in Indices(exp_df) |->
                    [exp_df[i] EXCEPT !.closed_date = to_datetime_coerce(@)]]
    /\ exp_pc' = "converted"
    /\ UNCHANGED <<csv, missing_data>>
    /\ UNCHANGED metricsVars

ExpClosedRaise ==
    /\ exp_pc = "closed"
    /\ StrictRaises(exp_df, "closed_date")
    /\ exp_pc' = "raised"
    /\ UNCHANGED <<csv, exp_df, missing_data>>
    /\ UNCHANGED metricsVars

----------------------------------------------------------------------------
Next ==
    \/ Preprocess
    \/ Baseline
    \/ MonthlyVolumes
    \/ DailySeries
    \/ RegionalSummary
    \/ Impact
    \/ Report
    \/ ReportRaise
    \/ Export

NextExp ==
    \/ ExpMissing
    \/ ExpCreated
    \/ ExpCreatedRaise
    \/ ExpClosed
    \/ ExpClosedRaise

NextScripts == Next \/ NextExp

Spec == Init /\ [][Next]_vars
SpecVolumes == InitVolumes /\ [][Next]_vars
SpecDaily == InitDaily /\ [][Next]_vars
SpecRegional == InitRegional /\ [][Next]_vars
SpecExport == InitExport /\ [][Next]_vars
SpecImpact == InitImpact /\ [][Next]_vars
SpecTiers == InitTiers /\ [][Next]_vars
SpecScripts == Init /\ [][NextScripts]_vars

----------------------------------------------------------------------------
(* The input as the claims speak of it, read off the file.                  *)

AfterMonthly == pc \in {"daily", "regional", "impact", "report", "export", "done", "raised"}
AfterDaily == pc \in {"regional", "impact", "report", "export", "done", "raised"}
AfterRegional == pc \in {"impact", "report", "export", "done", "raised"}
AfterImpact == pc \in {"report", "export", "done", "raised"}

Dated(r) == r.created_date.kind = "iso"

\* the number of requests in the rows of the file that satisfy a condition
Requests(I) == SumOver(I, [i \in Indices(csv) |-> csv[i].n])

\* the months in which agency a has a request, and the requests it has in them
InputMonths(a) ==
    {csv[i].created_date.m : i \in {j \in Indices(csv) : csv[j].agency_name = a /\ Dated(csv[j])}}
InputTotal(a) == Requests({i \in Indices(csv) : csv[i].agency_name = a /\ Dated(csv[i])})

\* the creation dates of the input, and the requests created on one
DateOf(r) == r.created_date.m * 100 + r.created_date.d
InputDates == {DateOf(csv[i]) : i \in {j \in Indices(csv) : Dated(csv[j])}}
InputDaily(d) == Requests({i \in Indices(csv) : Dated(csv[i]) /\ DateOf(csv[i]) = d})

InputBoroughs == {csv[i].borough : i \in Indices(csv)} \ {Null}
InputInBorough(b) == Requests({i \in Indices(csv) : csv[i].borough = b})
InputClosedIn(b) == Requests({i \in Indices(csv) : csv[i].borough = b /\ csv[i].status = "Closed"})

\* m is p / q rounded to the nearest integer, the even one on a tie
IsNearestEven(m, p, q) ==
    LET dist == IF q * m >= p THEN q * m - p ELSE p - q * m
    IN  /\ 2 * dist <= q
        /\ 2 * dist = q => m % 2 = 0

----------------------------------------------------------------------------
(* C1 *)

Counts123 == [m \in 1..3 |-> 100 * m]
Table123 == [i \in 1..3 |-> Row("DOT", IsoText(i, 1), NullText, "BRONX", "Open", 100 * i)]

\* C1 as stated: for every agency of the summary, utilization_rate times the
\* capacity is the exact mean of its monthly counts, workload_flag is
\* (exact mean > workload threshold) and utilization_flag is
\* (utilization_rate > 0.80).
C1_ExactMean ==
    AfterMonthly =>
        \A a \in DOMAIN monthly_agency_avg :
            LET row == monthly_agency_avg[a]
                k == Cardinality(InputMonths(a))
                rate == row.utilization_rate
            IN  /\ ~rate.nan
                /\ rate.den % BASELINE_MONTHLY_CAPACITY = 0
                /\ rate.num * k = InputTotal(a) * (rate.den \div BASELINE_MONTHLY_CAPACITY)
                /\ row.workload_flag <=> (InputTotal(a) > WORKLOAD_THRESHOLD * k)
                /\ row.utilization_flag <=> (rate.num * 100 > 80 * rate.den)

\* C1 (amended): for every agency of the summary, utilization_rate is the mean
\* of its monthly counts rounded to the nearest integer (ties to even) divided
\* by the capacity, workload_flag is (rounded mean > workload threshold) and
\* utilization_flag is (utilization_rate > 0.80); monthly counts 100, 200, 300
\* give utilization_rate 200 / capacity, which is 0.2 at capacity 1000, and
\* workload_flag false for a threshold above 300.
C1_RoundedMean ==
    /\ AfterMonthly =>
        \A a \in DOMAIN monthly_agency_avg :
            LET row == monthly_agency_avg[a]
                k == Cardinality(InputMonths(a))
                rate == row.utilization_rate
                scale == rate.den \div BASELINE_MONTHLY_CAPACITY
                m == rate.num \div scale
            IN  /\ ~rate.nan
                /\ rate.den % BASELINE_MONTHLY_CAPACITY = 0
                /\ rate.num = m * scale
                /\ IsNearestEven(m, InputTotal(a), k)
                /\ row.workload_flag <=> (m > WORKLOAD_THRESHOLD)
                /\ row.utilization_flag <=> (m * 100 > 80 * BASELINE_MONTHLY_CAPACITY)
    /\ (AfterMonthly /\ csv = Table123) =>
            /\ monthly_agency_avg["DOT"].utilization_rate.num * BASELINE_MONTHLY_CAPACITY
                    = 200 * monthly_agency_avg["DOT"].utilization_rate.den
            /\ ~monthly_agency_avg["DOT"].workload_flag
    /\ LET row == AgencyRow(Counts123, 1000, 301)
       IN  /\ row.utilization_rate.num * 10 = 2 * row.utilization_rate.den
           /\ ~row.workload_flag

\* an agency whose mean is no integer and which is flagged on both counts
C1_Witness ==
    /\ AfterMonthly
    /\ \E a \in DOMAIN monthly_agency_avg :
            /\ InputTotal(a) % Cardinality(InputMonths(a)) # 0
            /\ monthly_agency_avg[a].workload_flag
            /\ monthly_agency_avg[a].utilization_flag

----------------------------------------------------------------------------
(* C2 *)

\* the daily counts of the input, by date
InputDailyCounts == [d \in InputDates |-> InputDaily(d)]

\* the k-th smallest of the counts c
OrderStat(c, k) ==
    CHOOSE v \in {c[d] : d \in DOMAIN c} :
        /\ Cardinality({d \in DOMAIN c : c[d] < v}) < k
        /\ Cardinality({d \in DOMAIN c : c[d] <= v}) >= k

\* 100 times the p-th percentile of the counts c, interpolated linearly between
\* the order statistics around position (n - 1) * p / 100
Percentile100(c, p) ==
    LET h == (Cardinality(DOMAIN c) - 1) * p
        lo == h \div 100 + 1
    IN  IF h % 100 = 0 THEN 100 * OrderStat(c, lo)
        ELSE 100 * OrderStat(c, lo) + (h % 100) * (OrderStat(c, lo + 1) - OrderStat(c, lo))

PeakScenario ==
    [i \in 1..10 |-> Row("DOT", IsoText(1, i), NullText, "BRONX", "Open",
                         IF i = 5 THEN 50 ELSE 1)]
PeakScenarioCounts == [i \in 1..10 |-> IF i = 5 THEN 50 ELSE 1]

FlaggedDates == {daily_volume[i].date : i \in {j \in Indices(daily_volume) : daily_volume[j].peak_flag}}

\* C2: a day of the daily series is flagged peak exactly when its count is
\* strictly greater than the configured percentile (line 124 configures the
\* 98th) of the counts of all days, interpolated linearly; on ten consecutive
\* days with one request each but 50 on the fifth, the fifth day is the only
\* one flagged, by the script and by its quantile and comparison at percentile 90.
C2_PeakAbovePercentile ==
    /\ (AfterDaily /\ daily_volume # <<>>) =>
        \A c \in {InputDailyCounts} : \A p \in {Percentile100(c, PEAK_QUANTILE)} :
            \A i \in Indices(daily_volume) :
                daily_volume[i].peak_flag <=> 100 * c[daily_volume[i].date] > p
    /\ (AfterDaily /\ csv = PeakScenario) => FlaggedDates = {105}
    /\ \A q \in {Quantile(PeakScenarioCounts, 90)} :
            {i \in 1..10 : PeakFlag(PeakScenarioCounts[i], q)} = {5}

\* the ten-day scenario, its daily series computed
C2_Witness ==
    /\ AfterDaily
    /\ csv = PeakScenario
    /\ Len(daily_volume) = 10
    /\ daily_volume[5].peak_flag

----------------------------------------------------------------------------
(* C5 *)

\* C5: the daily series ascends by date; rolling_avg_7 is null for the first 3
\* and the last 3 entries, and is for every other entry the mean of the counts
\* of the 7 entries centred on it.
C5_RollingEdgesNull ==
    AfterDaily =>
        \A i \in Indices(daily_volume) :
            LET r == daily_volume[i].rolling_avg_7
            IN  /\ \A j \in Indices(daily_volume) :
                        j < i => daily_volume[j].date < daily_volume[i].date
                /\ (i <= 3 \/ i > Len(daily_volume) - 3) => r.nan
                /\ (i > 3 /\ i <= Len(daily_volume) - 3) =>
                        /\ ~r.nan
                        /\ r.num * 7 =
                            r.den * SumOver({daily_volume[j].date : j \in (i - 3)..(i + 3)},
                                            InputDailyCounts)

\* a series long enough for two entries with different rolling averages
C5_Witness ==
    /\ AfterDaily
    /\ Len(daily_volume) >= 8
    /\ \E i, j \in Indices(daily_volume) :
            /\ ~daily_volume[i].rolling_avg_7.nan
            /\ ~daily_volume[j].rolling_avg_7.nan
            /\ daily_volume[i].rolling_avg_7 # daily_volume[j].rolling_avg_7

----------------------------------------------------------------------------
(* C3 *)

ShareScenario == RegionalTable(600, 200, 100, 100, 0)

\* the share_pct (market_share) of every borough has denominator den and the
\* numerators add up to 100 * den
SharesSumTo100(den) ==
    /\ \A b \in DOMAIN borough_stats : borough_stats[b].market_share.den = den
    /\ SumOver(DOMAIN borough_stats,
               [b \in DOMAIN borough_stats |-> borough_stats[b].market_share.num]) = 100 * den

\* share_pct = total / sum of totals * 100, summing to 100, and the scenario's
\* shares 80 and 20
SharesAsClaimed ==
    /\ (AfterRegional /\ borough_stats # <<>>) =>
        \A all \in {Requests({i \in Indices(csv) : csv[i].borough # Null})} :
            /\ \A b \in DOMAIN borough_stats :
                    LET row == borough_stats[b]
                    IN  /\ ~row.market_share.nan
                        /\ row.market_share.num * all
                                = 100 * InputInBorough(b) * row.market_share.den
            /\ SharesSumTo100(all)
    /\ (AfterRegional /\ csv = ShareScenario) =>
            /\ borough_stats["MANHATTAN"].market_share.num
                    = 80 * borough_stats["MANHATTAN"].market_share.den
            /\ borough_stats["BRONX"].market_share.num
                    = 20 * borough_stats["BRONX"].market_share.den

\* closure rates 0.75 and 0.50 in the scenario
ScenarioClosureRates ==
    (AfterRegional /\ csv = ShareScenario) =>
            /\ borough_stats["MANHATTAN"].closure_rate.num * 100
                    = 75 * borough_stats["MANHATTAN"].closure_rate.den
            /\ borough_stats["BRONX"].closure_rate.num * 100
                    = 50 * borough_stats["BRONX"].closure_rate.den

\* C3 as stated: closure_rate is exactly closed / total for every borough of
\* the summary, share_pct is total / sum of totals * 100 and the shares sum to
\* 100; Manhattan 600 of 800 and Bronx 100 of 200 give 0.75, 0.50, 80 and 20.
C3_ExactClosureRate ==
    /\ AfterRegional =>
        \A b \in DOMAIN borough_stats :
            LET row == borough_stats[b]
            IN  /\ ~row.closure_rate.nan
                /\ row.closure_rate.num * InputInBorough(b)
                        = InputClosedIn(b) * row.closure_rate.den
    /\ SharesAsClaimed
    /\ ScenarioClosureRates

\* C3 (amended): closure_rate is closed / total rounded to 3 decimals (ties to
\* the even digit); the rest as stated.
C3_RoundedClosureRate ==
    /\ AfterRegional =>
        \A b \in DOMAIN borough_stats :
            LET row == borough_stats[b]
            IN  /\ ~row.closure_rate.nan
                /\ row.closure_rate.den = 1000
                /\ IsNearestEven(row.closure_rate.num, 1000 * InputClosedIn(b),
                                 InputInBorough(b))
    /\ SharesAsClaimed
    /\ ScenarioClosureRates

\* two boroughs, one of them with a closure rate of more than 3 decimals
C3_Witness ==
    /\ AfterRegional
    /\ Cardinality(DOMAIN borough_stats) = 2
    /\ \E b \in DOMAIN borough_stats :
            /\ (1000 * InputClosedIn(b)) % InputInBorough(b) # 0
            /\ borough_stats[b].closure_rate.num > 0

----------------------------------------------------------------------------
(* C4 *)

InputAgencies == {csv[i].agency_name : i \in Indices(csv)} \ {Null}
InputDatedAgencies ==
    {csv[i].agency_name : i \in {j \in Indices(csv) : Dated(csv[j])}} \ {Null}

SeriesDates == {daily_volume[i].date : i \in Indices(daily_volume)}

\* the daily series has one entry for each creation date of the input, the
\* borough summary one for each borough, and no entry of a summary counts
\* zero requests
DailyAndBoroughKeys ==
    AfterRegional =>
        /\ SeriesDates = InputDates
        /\ Len(daily_volume) = Cardinality(InputDates)
        /\ DOMAIN borough_stats = InputBoroughs
        /\ \A i \in Indices(daily_volume) : daily_volume[i].daily_requests >= 1
        /\ \A b \in DOMAIN borough_stats : borough_stats[b].total_requests >= 1
        /\ \A a \in DOMAIN monthly_agency_avg : monthly_agency_avg[a].min >= 1

\* C4 as stated: the agency summary has one entry for each agency that has a
\* request; the daily series and the borough summary as above.
C4_KeysAreInputValues ==
    /\ AfterRegional => DOMAIN monthly_agency_avg = InputAgencies
    /\ DailyAndBoroughKeys

\* C4 (amended): the agency summary has one entry for each agency that has a
\* request with a non-null created_date; the rest as stated.
C4_KeysAreDatedInputValues ==
    /\ AfterRegional => DOMAIN monthly_agency_avg = InputDatedAgencies
    /\ DailyAndBoroughKeys

\* an agency in the summary beside an agency whose requests all lack a date
C4_Witness ==
    /\ AfterRegional
    /\ monthly_agency_avg # <<>>
    /\ InputAgencies \ DOMAIN monthly_agency_avg # {}
    /\ daily_volume # <<>>
    /\ borough_stats # <<>>

----------------------------------------------------------------------------
(* C6 *)

\* C6: on a file without requests the run raises no error and the summaries
\* it computes are empty.
C6_EmptyInputCompletes ==
    csv = <<>> =>
        /\ pc # "raised"
        /\ monthly_agency_avg = <<>>
        /\ daily_volume = <<>>
        /\ borough_stats = <<>>

----------------------------------------------------------------------------
(* C7 *)

AllRequests == Requests(Indices(csv))
WithoutDate == Requests({i \in Indices(csv) : ~Dated(csv[i])})
WithoutBorough == Requests({i \in Indices(csv) : csv[i].borough = Null})
WithoutAgencyMonth ==
    Requests({i \in Indices(csv) : csv[i].agency_name = Null \/ ~Dated(csv[i])})

\* C7: the requests without a creation date are left out of the daily series,
\* those without a borough out of the borough summary, those without an agency
\* (or a month) out of the agency summary, and each of these numbers is
\* recorded as a count of its own.  metrics.py binds no such count; the only
\* counts of missing values in the repository are missing_data of data_exp.py,
\* and the claim is read as speaking of them, once data_exp.py has computed them.
C7_ExcludedAreCounted ==
    (AfterRegional /\ exp_pc # "missing") =>
        /\ SumOver(Indices(daily_volume),
                   [i \in Indices(daily_volume) |-> daily_volume[i].daily_requests])
                = AllRequests - WithoutDate
        /\ SumOver(DOMAIN borough_stats,
                   [b \in DOMAIN borough_stats |-> borough_stats[b].total_requests])
                = AllRequests - WithoutBorough
        /\ SumOver(DOMAIN monthly_agency_volume, monthly_agency_volume)
                = AllRequests - WithoutAgencyMonth
        /\ missing_data.created_date = WithoutDate
        /\ missing_data.borough = WithoutBorough
        /\ missing_data.agency_name = WithoutAgencyMonth

----------------------------------------------------------------------------
(* C8 *)

HasMalformedDate ==
    \E i \in Indices(csv) :
        csv[i].created_date.kind = "bad" \/ csv[i].closed_date.kind = "bad"

\* C8: when a date of the file cannot be parsed, no script aborts, the date
\* becomes a null timestamp, and the request is counted in total_requests and
\* is a row of the exported table.
C8_MalformedDateIsSoft ==
    HasMalformedDate =>
        /\ exp_pc # "raised"
        /\ pc # "raised"
        /\ pc # "preprocess" =>
                \A i \in Indices(csv) :
                    /\ csv[i].created_date.kind = "bad" => df[i].created_date = NaT
                    /\ csv[i].closed_date.kind = "bad" => df[i].closed_date = NaT
        /\ AfterImpact => impact.total_requests = AllRequests
        /\ pc = "done" =>
                /\ Len(powerbi_data) = Len(csv)
                /\ \A i \in Indices(csv) : powerbi_data[i].n = csv[i].n

----------------------------------------------------------------------------
(* C9 *)

\* C9: the stdev and the variability coefficient of every agency of the
\* summary, one with a single month included, are defined values, not NaN, in
\* the summary and in the exported rows of that agency.
C9_SingleMonthDefined ==
    /\ AfterMonthly =>
        \A a \in DOMAIN monthly_agency_avg :
            /\ ~monthly_agency_avg[a].std.nan
            /\ ~monthly_agency_avg[a].variability_coefficient.nan
    /\ pc = "done" =>
        \A i \in Indices(powerbi_data) :
            powerbi_data[i].agency_name \in DOMAIN monthly_agency_avg
                => ~powerbi_data[i].variability_coefficient.nan

----------------------------------------------------------------------------
(* C10 *)

\* C10: the monthly-volume, daily-series and regional-summary computations
\* leave the input table as it is.
C10_PassesLeaveInputAlone ==
    [][(pc \in {"monthly", "daily", "regional"}) => (df' = df)]_vars

----------------------------------------------------------------------------
(* C11 *)

\* the dates whose entry of the daily series has a true peak flag
PeakFlaggedDates ==
    {daily_volume[j].date : j \in {k \in Indices(daily_volume) : daily_volume[k].peak_flag}}

\* C11: the exported table has one row for each request of the file, in every
\* row workload_flag and utilization_rate are those of the row's agency in the
\* agency summary, and is_peak_day is true exactly when the row's creation
\* date is a day of the daily series whose peak flag is true.
C11_RowsCarryOwnFlags ==
    pc = "done" =>
        /\ Len(powerbi_data) = Len(csv)
        /\ \A i \in Indices(csv) :
            LET row == powerbi_data[i]
                a == csv[i].agency_name
            IN  /\ row.n = csv[i].n
                /\ row.agency_name = a
                /\ a \in DOMAIN monthly_agency_avg =>
                        /\ row.workload_flag =
                                (IF monthly_agency_avg[a].workload_flag THEN "True" ELSE "False")
                        /\ row.utilization_rate = monthly_agency_avg[a].utilization_rate
                /\ row.is_peak_day <=> (Dated(csv[i]) /\ DateOf(csv[i]) \in PeakFlaggedDates)

----------------------------------------------------------------------------
(* C12 *)

\* the agencies of the full agency summary whose workload_flag is true
OverburdenedAgencies == {a \in DOMAIN monthly_agency_avg : monthly_agency_avg[a].workload_flag}

\* C12: the count of overburdened departments of the business-impact summary
\* is the number of agencies of the full agency summary whose workload_flag is
\* true, whatever the number of agencies.
C12_OverburdenedCountsAllAgencies ==
    AfterImpact => impact.overburdened_depts = Cardinality(OverburdenedAgencies)

----------------------------------------------------------------------------
(* C13 *)

\* the calendar months in which a request of the file was created
InputCalendarMonths == {csv[i].created_date.m : i \in {j \in Indices(csv) : Dated(csv[j])}}

\* C13: the capacity and the workload threshold are those of the number of
\* calendar months in which a request was created: 50000 and 40000 for 6 or
\* more, 30000 and 25000 for 3 to 5, 20000 and 15000 for fewer; requests
\* without a parseable created_date do not count as a month.
C13_TierByCreationMonths ==
    pc \notin {"preprocess", "baseline"} =>
        \A months \in {Cardinality(InputCalendarMonths)} :
            /\ months >= 6 =>
                    BASELINE_MONTHLY_CAPACITY = 50000 /\ WORKLOAD_THRESHOLD = 40000
            /\ (months >= 3 /\ months < 6) =>
                    BASELINE_MONTHLY_CAPACITY = 30000 /\ WORKLOAD_THRESHOLD = 25000
            /\ months < 3 =>
                    BASELINE_MONTHLY_CAPACITY = 20000 /\ WORKLOAD_THRESHOLD = 15000

====
